---- MODULE Spec2Model ----
(***************************************************************************)
(* Model of src/main.rs: the interactive shell of main, the Rust basics    *)
(* demo and the Solana wallet query flow, with the standard input, the     *)
(* key file and the RPC endpoint as the environment.                       *)
(***************************************************************************)
EXTENDS Integers, Sequences, FiniteSets, TLC

\* Longest line body (the characters before the line terminator) the
\* environment types, and the longest signature history the endpoint returns.
MaxLen == 2
MaxSigs == 6

(***************************************************************************)
(* Text.  A string the program inspects is a sequence of one-character     *)
(* strings; a printed line is a sequence of fragments.                     *)
(***************************************************************************)
\* char::is_whitespace, restricted to the characters of the model
Whitespace == {" ", "\t", "\n", "\r"}

RECURSIVE TrimStart(_)
TrimStart(s) ==
    IF s # <<>> /\ Head(s) \in Whitespace THEN TrimStart(Tail(s)) ELSE s

RECURSIVE TrimEnd(_)
TrimEnd(s) ==
    IF s # <<>> /\ s[Len(s)] \in Whitespace
    THEN TrimEnd(SubSeq(s, 1, Len(s) - 1))
    ELSE s

\* mutant: trim_end in place of trim
TrimEndOnly(s) == TrimEnd(s)

\* str::trim
Trim(s) == TrimEnd(TrimStart(s))

(***************************************************************************)
(* Unsigned integers of any width, as little-endian sequences of decimal   *)
(* digits without high zeros (<<>> is 0), and on them the arithmetic of    *)
(* `balance as f64 / 1_000_000_000.0` and of f64's Display.                *)
(***************************************************************************)


Rest(a) == IF a = <<>> THEN <<>> ELSE Tail(a)
Low(a) == IF a = <<>> THEN 0 ELSE Head(a)

RECURSIVE Norm(_)
Norm(a) == IF a # <<>> /\ a[Len(a)] = 0 THEN Norm(SubSeq(a, 1, Len(a) - 1)) ELSE a

RECURSIVE FromInt(_)
FromInt(n) == IF n = 0 THEN <<>> ELSE <<n % 10>> \o FromInt(n \div 10)

RECURSIVE AddC(_, _, _)
AddC(a, b, c) ==
    IF a = <<>> /\ b = <<>> THEN FromInt(c)
    ELSE LET s == Low(a) + Low(b) + c
         IN  <<s % 10>> \o AddC(Rest(a), Rest(b), s \div 10)
Add(a, b) == AddC(a, b, 0)

RECURSIVE SubB(_, _, _)
SubB(a, b, c) ==
    IF a = <<>> THEN <<>>
    ELSE LET s == Low(a) - Low(b) - c
         IN  <<s % 10>> \o SubB(Rest(a), Rest(b), IF s < 0 THEN 1 ELSE 0)
Sub(a, b) == Norm(SubB(a, b, 0))

RECURSIVE CmpAt(_, _, _)
CmpAt(a, b, i) ==
    IF i = 0 THEN 0
    ELSE IF a[i] < b[i] THEN -1
    ELSE IF a[i] > b[i] THEN 1
    ELSE CmpAt(a, b, i - 1)
Cmp(a, b) ==
    IF Len(a) < Len(b) THEN -1
    ELSE IF Len(a) > Len(b) THEN 1
    ELSE CmpAt(a, b, Len(a))

RECURSIVE MulC(_, _, _)
MulC(a, m, c) ==
    IF a = <<>> THEN FromInt(c)
    ELSE LET s == Head(a) * m + c
         IN  <<s % 10>> \o MulC(Tail(a), m, s \div 10)
MulSmall(a, m) == Norm(MulC(a, m, 0))

RECURSIVE MulPow2(_, _)
MulPow2(a, k) ==
    IF k = 0 THEN a
    ELSE IF k >= 10 THEN MulPow2(MulSmall(a, 1024), k - 10)
    ELSE MulPow2(MulSmall(a, 2), k - 1)

MulPow10(a, k) == IF a = <<>> THEN a ELSE [i \in 1..k |-> 0] \o a

RECURSIVE DivRemSmall(_, _)
DivRemSmall(a, m) ==
    IF a = <<>> THEN [q |-> <<>>, r |-> 0]
    ELSE LET hi  == DivRemSmall(Tail(a), m)
             cur == hi.r * 10 + Head(a)
         IN  [q |-> <<cur \div m>> \o hi.q, r |-> cur % m]
DivSmall(a, m) == Norm(DivRemSmall(a, m).q)

RECURSIVE BitLen(_)
BitLen(a) == IF a = <<>> THEN 0 ELSE 1 + BitLen(DivSmall(a, 2))

Pow2(k) == MulPow2(<<1>>, k)


RECURSIVE SmallVal(_)
SmallVal(a) == IF a = <<>> THEN 0 ELSE Head(a) + 10 * SmallVal(Tail(a))

\* the amount written in groups of three digits, 2_500_000_000 as <<2, 500, 000, 000>>
RECURSIVE FromGroups(_)
FromGroups(g) ==
    IF g = <<>> THEN <<>>
    ELSE Add(MulPow10(FromGroups(SubSeq(g, 1, Len(g) - 1)), 3), FromInt(g[Len(g)]))

\* u64 amounts, f64 values as [mant, exp] (mant * 2^exp, 2^52 <= mant < 2^53)
One == <<1>>
IsOdd(a) == a # <<>> /\ a[1] % 2 = 1

\* `balance as f64`: the nearest f64, ties to even, as the integer it equals
U64ToF64(a) ==
    LET n == BitLen(a)
    IN  IF n <= 53 THEN a
        ELSE LET d    == 2 ^ (n - 53)
                 qr   == DivRemSmall(a, d)
                 q    == Norm(qr.q)
                 half == d \div 2
                 up   == qr.r > half \/ (qr.r = half /\ IsOdd(q))
             IN  MulSmall(IF up THEN Add(q, One) ELSE q, d)

Billion == MulPow10(One, 9)

\* `/ 1_000_000_000.0`: the f64 nearest to m / 10^9, ties to even
F64DivBillion(m) ==
    IF m = <<>> THEN [mant |-> <<>>, exp |-> 0]
    ELSE LET lim  == MulPow2(Billion, 52)
             s0   == 82 - BitLen(m)
             s    == IF Cmp(MulPow2(m, s0), lim) >= 0 THEN s0 ELSE s0 + 1
             n    == MulPow2(m, s)
             q0   == SubSeq(n, 10, Len(n))
             r    == SmallVal(Norm(SubSeq(n, 1, 9)))
             up   == r > 500000000 \/ (r = 500000000 /\ IsOdd(q0))
             q    == IF up THEN Add(q0, One) ELSE q0
         IN  IF Cmp(q, Pow2(53)) = 0
             THEN [mant |-> Pow2(52), exp |-> 1 - s]
             ELSE [mant |-> q, exp |-> 0 - s]

\* core::num::flt2dec::decode of a normal f64
Decode(v) ==
    IF Cmp(v.mant, Pow2(52)) = 0
    THEN [mant |-> MulSmall(v.mant, 4), minus |-> One, plus |-> <<2>>,
          exp |-> v.exp - 2, inclusive |-> ~IsOdd(v.mant)]
    ELSE [mant |-> MulSmall(v.mant, 2), minus |-> One, plus |-> One,
          exp |-> v.exp - 1, inclusive |-> ~IsOdd(v.mant)]

\* flt2dec::estimator::estimate_scaling_factor:
\* ((nbits + exp) * 1292913986) >> 32, in two 16-bit halves
EstimateScalingFactor(mant, exp) ==
    LET nbits == BitLen(Sub(mant, One))
        n     == nbits + exp
    IN  (n * 19728 + ((n * 19778) \div 65536)) \div 65536

CmpLess(x, y, inclusive) == IF inclusive THEN Cmp(x, y) <= 0 ELSE Cmp(x, y) < 0

RECURSIVE DivRemBig(_, _)
DivRemBig(a, b) ==
    IF Cmp(a, b) < 0 THEN [q |-> 0, r |-> a]
    ELSE LET n == DivRemBig(Sub(a, b), b) IN [q |-> n.q + 1, r |-> n.r]

\* flt2dec::round_up
RoundUp(buf) ==
    LET notnine == {i \in 1..Len(buf) : buf[i] # 9}
    IN  IF notnine # {}
        THEN LET i == CHOOSE j \in notnine : \A l \in notnine : l <= j
             IN  [buf |-> [j \in 1..Len(buf) |->
                              IF j < i THEN buf[j] ELSE IF j = i THEN buf[j] + 1 ELSE 0],
                  carry |-> <<>>]
        ELSE IF Len(buf) > 0
        THEN [buf |-> [j \in 1..Len(buf) |-> IF j = 1 THEN 1 ELSE 0], carry |-> <<0>>]
        ELSE [buf |-> buf, carry |-> <<1>>]

\* the digit loop of flt2dec::strategy::dragon::format_shortest
RECURSIVE DragonLoop(_, _, _, _, _, _, _)
DragonLoop(mant, minus, plus, scale, buf, k, inclusive) ==
    LET qr   == DivRemBig(mant, scale)
        rem  == qr.r
        b    == Append(buf, qr.q)
        down == CmpLess(rem, minus, inclusive)
        up   == CmpLess(scale, Add(rem, plus), inclusive)
    IN  IF down \/ up
        THEN IF up /\ (~down \/ Cmp(MulSmall(rem, 2), scale) >= 0)
             THEN LET ru == RoundUp(b)
                  IN  [buf |-> ru.buf \o ru.carry,
                       exp |-> IF ru.carry # <<>> THEN k + 1 ELSE k]
             ELSE [buf |-> b, exp |-> k]
        ELSE DragonLoop(MulSmall(rem, 10), MulSmall(minus, 10), MulSmall(plus, 10),
                        scale, b, k, inclusive)

\* format_shortest: the shortest digits that read back as the same f64, the
\* closest to it among them, and the decimal exponent (0.d1d2... * 10^exp)
FormatShortest(d) ==
    LET k0     == EstimateScalingFactor(Add(d.mant, d.plus), d.exp)
        mant0  == IF d.exp < 0 THEN d.mant ELSE MulPow2(d.mant, d.exp)
        minus0 == IF d.exp < 0 THEN d.minus ELSE MulPow2(d.minus, d.exp)
        plus0  == IF d.exp < 0 THEN d.plus ELSE MulPow2(d.plus, d.exp)
        scale0 == IF d.exp < 0 THEN Pow2(0 - d.exp) ELSE One
        scale  == IF k0 >= 0 THEN MulPow10(scale0, k0) ELSE scale0
        mant1  == IF k0 >= 0 THEN mant0 ELSE MulPow10(mant0, 0 - k0)
        minus1 == IF k0 >= 0 THEN minus0 ELSE MulPow10(minus0, 0 - k0)
        plus1  == IF k0 >= 0 THEN plus0 ELSE MulPow10(plus0, 0 - k0)
        fix    == CmpLess(scale, Add(mant1, plus1), d.inclusive)
    IN  IF fix
        THEN DragonLoop(mant1, minus1, plus1, scale, <<>>, k0 + 1, d.inclusive)
        ELSE DragonLoop(MulSmall(mant1, 10), MulSmall(minus1, 10), MulSmall(plus1, 10),
                        scale, <<>>, k0, d.inclusive)

DigitChar == <<"0", "1", "2", "3", "4", "5", "6", "7", "8", "9">>
Chars(buf) == [i \in 1..Len(buf) |-> DigitChar[buf[i] + 1]]
Zeros(n) == [i \in 1..n |-> "0"]

\* flt2dec::digits_to_dec_str with frac_digits = 0
DigitsToDecStr(buf, exp) ==
    IF exp <= 0 THEN <<"0", ".">> \o Zeros(0 - exp) \o Chars(buf)
    ELSE IF exp < Len(buf)
    THEN Chars(SubSeq(buf, 1, exp)) \o <<".">> \o Chars(SubSeq(buf, exp + 1, Len(buf)))
    ELSE Chars(buf) \o Zeros(exp - Len(buf))

\* <f64 as Display>::fmt without a precision
DisplayF64(v) ==
    IF v.mant = <<>> THEN <<"0">>
    ELSE LET r == FormatShortest(Decode(v)) IN DigitsToDecStr(r.buf, r.exp)

\* mutant: the integer division balance / 1_000_000_000
FormatBalanceIntegerDivision(balance) ==
    LET q == SubSeq(balance, 10, Len(balance))
    IN  IF q = <<>> THEN <<"0">> ELSE Chars([i \in 1..Len(q) |-> q[Len(q) + 1 - i]])

\* the text of `balance as f64 / 1_000_000_000.0` under {}
FormatBalance(balance) == DisplayF64(F64DivBillion(U64ToF64(balance)))


(***************************************************************************)
(* The environment: what standard input, the key file and the endpoint     *)
(* can hand to the program.                                                *)
(***************************************************************************)
BodyChars == {"1", "2", "3", "x", " ", "\t"}
Bodies == UNION {[1..n -> BodyChars] : n \in 0..MaxLen}
Terminators == {<<>>, <<"\n">>, <<"\r", "\n">>}
\* what read_line appends when it returns Ok(n) with n > 0: a line with its
\* terminator, or the unterminated rest of the stream. At end-of-stream it
\* returns Ok(0) and appends nothing; a terminal can deliver lines after that.
Lines == {b \o t : b \in Bodies, t \in Terminators} \ {<<>>}
\* io::Error values read_line returns, one of each representation: the
\* message error of a line that is not UTF-8, and the OS error of a standard
\* input that is a directory (errno 21); code is "" where there is none
ReadErrors ==
    { [repr |-> "SimpleMessage", code |-> "", kind |-> "InvalidData",
       message |-> "stream did not contain valid UTF-8"],
      [repr |-> "Os", code |-> "21", kind |-> "IsADirectory",
       message |-> "Is a directory"] }
HomeDir == "/home/user"
Pubkeys == {"pubkeyA", "pubkeyB"}
Blockhashes == {"hashA"}
RpcErrors == {"rpc error"}
Balances ==
    {FromGroups(g) : g \in
        {<<>>, <<1>>, <<999, 999, 999>>, <<1, 000, 000, 000>>, <<2, 500, 000, 000>>,
         <<123, 456, 789, 012>>,
         <<8, 388, 607, 999, 999, 999>>, <<8, 388, 608, 000, 000, 000>>,
         <<8, 388, 608, 000, 000, 001>>,
         <<9, 007, 199, 254, 740, 992>>, <<9, 007, 199, 254, 740, 993>>,
         <<18, 446, 744, 073, 709, 551, 615>>}}
SigPool ==
    <<"sigC", "sigA", "sigE", "sigB", "sigF", "sigD", "sigH", "sigG", "sigJ", "sigI">>
\* histories the endpoint returns, most recent first
SigHistories == {SubSeq(SigPool, i, i + n - 1) : i \in {1, 3}, n \in 0..MaxSigs}

(***************************************************************************)
(* State.                                                                  *)
(*   pc              where the single thread is                            *)
(*   choice          main's `choice` (get_user_input's `input`)            *)
(*   pubkey          solana_interaction_demo's `pubkey`, "" outside it     *)
(*   log             what the process printed, read and called since the   *)
(*                   top of the current iteration of main's loop           *)
(*   feature_solana  whether the build has the cargo feature "solana"      *)
(***************************************************************************)
VARIABLES pc, choice, pubkey, log, feature_solana
vars == <<pc, choice, pubkey, log, feature_solana>>

\* one println!
Stdout(t) == [k |-> "stdout", text |-> t]
\* the panic message
Stderr(t) == [k |-> "stderr", text |-> t]
\* one io::stdin().read_line: res is "line" (Ok(n), n > 0), "eof" (Ok(0)) or "err"
StdinRead(res) == [k |-> "stdin", res |-> res]
\* one read_keypair_file
FileRead(ok) == [k |-> "file", op |-> "read_keypair_file", ok |-> ok]
\* one blocking call of the RpcClient and what it returned
Rpc(op, ok, val) == [k |-> "rpc", op |-> op, ok |-> ok, val |-> val]

Init ==
    /\ pc = "main"
    /\ choice = <<>>
    /\ pubkey = ""
    /\ log = <<>>
    /\ feature_solana \in BOOLEAN

Banner ==
    << Stdout(<<"Combined Rust Basics and Solana Interaction Program">>),
       Stdout(<<"==================================================\n">>) >>

Menu ==
    << Stdout(<<"\nChoose a demo:">>),
       Stdout(<<"1. Rust Basics (variables, functions, structs, enums, ownership)">>),
       Stdout(<<"2. Solana Interaction (wallet info, balance)">>),
       Stdout(<<"3. Exit Program">>) >>

Prompt == Stdout(<<"Enter your choice (1-3): ">>)
Goodbye == Stdout(<<"Exiting program. Goodbye!">>)
InvalidChoice == Stdout(<<"Invalid choice. Please select 1, 2, or 3.">>)

\* main, up to its loop
Main ==
    /\ pc = "main"
    /\ log' = Banner
    /\ pc' = "loop"
    /\ UNCHANGED <<choice, pubkey, feature_solana>>

\* the top of the loop: the menu, then get_user_input up to its read_line
ShowMenu ==
    /\ pc = "loop"
    /\ log' = Menu \o <<Prompt>>
    /\ choice' = <<>>
    /\ pc' = "read_line"
    /\ UNCHANGED <<pubkey, feature_solana>>

\* {:?} of an io::Error, by its representation
DebugIoError(e) ==
    IF e.repr = "Os"
    THEN <<"Os { code: ", e.code, ", kind: ", e.kind, ", message: \"", e.message, "\" }">>
    ELSE <<"Error { kind: ", e.kind, ", message: \"", e.message, "\" }">>

\* the message of the panic of expect(msg) on Err(e): msg, ": ", and e under {:?}
ExpectFailed(msg, e) == Stderr(<<msg, ": ">> \o DebugIoError(e))

\* read_line(&mut input).expect("Failed to read input")
ReadLine ==
    /\ pc = "read_line"
    /\ \/ \E line \in Lines :
            /\ choice' = choice \o line
            /\ log' = Append(log, StdinRead("line"))
            /\ pc' = "match"
       \/ /\ choice' = choice
          /\ log' = Append(log, StdinRead("eof"))
          /\ pc' = "match"
       \/ \E e \in ReadErrors :
            /\ choice' = choice
            /\ log' = log \o <<StdinRead("err"), ExpectFailed("Failed to read input", e)>>
            /\ pc' = "panicked"
    /\ UNCHANGED <<pubkey, feature_solana>>

\* mutant: the arms match on the first character of the trimmed text
ArmFirstChar(t) ==
    IF t # <<>> /\ t[1] = "1" THEN "rust_basics_demo"
    ELSE IF t # <<>> /\ t[1] = "2" THEN "solana_interaction_demo"
    ELSE IF t # <<>> /\ t[1] = "3" THEN "exit"
    ELSE "invalid"

\* the arm `match choice.trim()` takes
Arm(t) ==
    IF t = <<"1">> THEN "rust_basics_demo"
    ELSE IF t = <<"2">> THEN "solana_interaction_demo"
    ELSE IF t = <<"3">> THEN "exit"
    ELSE "invalid"

\* mutant: the exit arm without its break
MatchNoBreak ==
    /\ pc = "match"
    /\ LET arm == Arm(Trim(choice))
       IN  IF arm = "exit" THEN log' = Append(log, Goodbye) /\ pc' = "loop"
           ELSE IF arm = "invalid" THEN log' = Append(log, InvalidChoice) /\ pc' = "loop"
           ELSE log' = log /\ pc' = arm
    /\ UNCHANGED <<choice, pubkey, feature_solana>>

Match ==
    /\ pc = "match"
    /\ LET arm == Arm(Trim(choice))
       IN  IF arm = "exit" THEN log' = Append(log, Goodbye) /\ pc' = "exited"
           ELSE IF arm = "invalid" THEN log' = Append(log, InvalidChoice) /\ pc' = "loop"
           ELSE log' = log /\ pc' = arm
    /\ UNCHANGED <<choice, pubkey, feature_solana>>

TakeOwnership(s) == Stdout(<<"  Took ownership of: ", s>>)
GiveOwnership == "returning ownership"
PrintStatus(status) ==
    IF status = "Active" THEN Stdout(<<"  Account is active">>)
    ELSE IF status = "Inactive" THEN Stdout(<<"  Account is inactive">>)
    ELSE Stdout(<<"  Account is locked">>)

\* the orders in which HashMap's Debug can visit the two entries
HashMapOrders ==
    { <<"\"Blue\": 10", "\"Red\": 50">>, <<"\"Red\": 50", "\"Blue\": 10">> }

RustBasicsDemo ==
    /\ pc = "rust_basics_demo"
    /\ \E scores \in HashMapOrders :
         log' = log \o
            << Stdout(<<"\nRUST BASICS DEMO">>),
               Stdout(<<"===============\n">>),
               Stdout(<<"Variables Demo:">>),
               Stdout(<<"  Immutable: ", "5", ", Mutable: ", "10">>),
               Stdout(<<"  Updated mutable: ", "15">>),
               Stdout(<<"\nOwnership Demo:">>),
               Stdout(<<"  s2: ", "hello">>),
               TakeOwnership("world"),
               Stdout(<<"  s4: ", GiveOwnership>>),
               Stdout(<<"\nStruct Demo:">>),
               Stdout(<<"  User: ", "alice", ", ", "alice@example.com">>),
               Stdout(<<"\nEnum and Pattern Matching Demo:">>),
               PrintStatus("Active"),
               Stdout(<<"\nCollection Types Demo:">>),
               Stdout(<<"  Vector: ", "[1, 2, 3, 4, 5, 6]">>),
               Stdout(<<"  HashMap: ", "{", scores[1], ", ", scores[2], "}">>) >>
    /\ pc' = "loop"
    /\ UNCHANGED <<choice, pubkey, feature_solana>>

FeatureDisabled ==
    << Stdout(<<"Solana features are not enabled. To use Solana features:">>),
       Stdout(<<"1. Add these dependencies to your Cargo.toml:">>),
       Stdout(<<"   solana-sdk = \"1.17.0\"">>),
       Stdout(<<"   solana-client = \"1.17.0\"">>),
       Stdout(<<"   shellexpand = \"3.1.0\"">>),
       Stdout(<<"2. Run cargo with --features=\"solana\"">>),
       Stdout(<<"   Or add [features] section to Cargo.toml: solana = []">>) >>

SolanaHeader ==
    << Stdout(<<"\nSOLANA INTERACTION DEMO">>),
       Stdout(<<"======================\n">>) >>

\* shellexpand::tilde
Tilde(path) == IF Head(path) = "~" THEN <<HomeDir>> \o Tail(path) ELSE path
DefaultKeypairPath == Tilde(<<"~", "/.config/solana/id.json">>)

\* solana_interaction_demo up to read_keypair_file (RpcClient::new does no I/O),
\* or all of it in a build without the feature
SolanaInteractionDemo ==
    /\ pc = "solana_interaction_demo"
    /\ IF feature_solana
       THEN log' = log \o SolanaHeader /\ pc' = "read_keypair_file"
       ELSE log' = log \o SolanaHeader \o FeatureDisabled /\ pc' = "loop"
    /\ UNCHANGED <<choice, pubkey, feature_solana>>

KeypairFailed ==
    << Stdout(<<"Failed to read keypair from ">> \o DefaultKeypairPath),
       Stdout(<<"Make sure you've created a wallet using 'solana-keygen new'">>) >>

\* mutant: the Err arm of read_keypair_file without its return
ReadKeypairFileNoReturn ==
    /\ pc = "read_keypair_file"
    /\ \/ \E pk \in Pubkeys :
            /\ pubkey' = pk
            /\ log' = log \o <<FileRead(TRUE), Stdout(<<"Wallet Public Key: ", pk>>)>>
       \/ /\ pubkey' = ""
          /\ log' = log \o <<FileRead(FALSE)>> \o KeypairFailed
    /\ pc' = "get_balance"
    /\ UNCHANGED <<choice, feature_solana>>

\* read_keypair_file and the print of the public key
ReadKeypairFile ==
    /\ pc = "read_keypair_file"
    /\ \/ \E pk \in Pubkeys :
            /\ pubkey' = pk
            /\ log' = log \o <<FileRead(TRUE), Stdout(<<"Wallet Public Key: ", pk>>)>>
            /\ pc' = "get_balance"
       \/ /\ pubkey' = ""
          /\ log' = log \o <<FileRead(FALSE)>> \o KeypairFailed
          /\ pc' = "loop"
    /\ UNCHANGED <<choice, feature_solana>>

BalanceLine(balance) == Stdout(<<"Balance: ">> \o FormatBalance(balance) \o <<" SOL">>)

\* mutant: get_balance called again after a failure
GetBalanceRetry ==
    /\ pc = "get_balance"
    /\ \/ \E balance \in Balances :
            /\ log' = log \o <<Rpc("get_balance", TRUE, balance), BalanceLine(balance)>>
            /\ pc' = "get_latest_blockhash"
       \/ \E err \in RpcErrors :
            /\ log' = log \o <<Rpc("get_balance", FALSE, <<err>>),
                               Stdout(<<"Failed to get balance: ", err>>)>>
            /\ pc' = IF \E i \in DOMAIN log : log[i].k = "rpc"
                     THEN "get_latest_blockhash"
                     ELSE "get_balance"
    /\ UNCHANGED <<choice, pubkey, feature_solana>>

\* mutant: the Err arm of get_balance returns from the flow
GetBalanceFatal ==
    /\ pc = "get_balance"
    /\ \/ \E balance \in Balances :
            /\ log' = log \o <<Rpc("get_balance", TRUE, balance), BalanceLine(balance)>>
            /\ pc' = "get_latest_blockhash"
            /\ pubkey' = pubkey
       \/ \E err \in RpcErrors :
            /\ log' = log \o <<Rpc("get_balance", FALSE, <<err>>),
                               Stdout(<<"Failed to get balance: ", err>>)>>
            /\ pc' = "loop"
            /\ pubkey' = ""
    /\ UNCHANGED <<choice, feature_solana>>

\* client.get_balance(&pubkey) and its match
GetBalance ==
    /\ pc = "get_balance"
    /\ \/ \E balance \in Balances :
            log' = log \o <<Rpc("get_balance", TRUE, balance), BalanceLine(balance)>>
       \/ \E err \in RpcErrors :
            log' = log \o <<Rpc("get_balance", FALSE, <<err>>),
                            Stdout(<<"Failed to get balance: ", err>>)>>
    /\ pc' = "get_latest_blockhash"
    /\ UNCHANGED <<choice, pubkey, feature_solana>>

\* mutant: get_latest_blockhash().unwrap()
GetLatestBlockhashUnwrap ==
    /\ pc = "get_latest_blockhash"
    /\ \/ \E hash \in Blockhashes :
            /\ log' = log \o <<Rpc("get_latest_blockhash", TRUE, <<hash>>),
                               Stdout(<<"Recent blockhash: ", hash>>)>>
            /\ pc' = "get_signatures_for_address"
       \/ \E err \in RpcErrors :
            /\ log' = log \o <<Rpc("get_latest_blockhash", FALSE, <<err>>),
                               Stderr(<<"called Result::unwrap() on an Err value: ", err>>)>>
            /\ pc' = "panicked"
    /\ UNCHANGED <<choice, pubkey, feature_solana>>

\* client.get_latest_blockhash(), its match and the print of the hash
GetLatestBlockhash ==
    /\ pc = "get_latest_blockhash"
    /\ \/ \E hash \in Blockhashes :
            /\ log' = log \o <<Rpc("get_latest_blockhash", TRUE, <<hash>>),
                               Stdout(<<"Recent blockhash: ", hash>>)>>
            /\ pc' = "get_signatures_for_address"
            /\ pubkey' = pubkey
       \/ \E err \in RpcErrors :
            /\ log' = log \o <<Rpc("get_latest_blockhash", FALSE, <<err>>),
                               Stdout(<<"Failed to get recent blockhash: ", err>>)>>
            /\ pc' = "loop"
            /\ pubkey' = ""
    /\ UNCHANGED <<choice, feature_solana>>

\* a number as println! formats it
DecStr(n) ==
    IF n = 0 THEN <<"0">>
    ELSE LET d == FromInt(n) IN Chars([i \in 1..Len(d) |-> d[Len(d) + 1 - i]])

\* mutant: the iterator without take
TakeAll(s, n) == s

\* iter().take(n)
Take(s, n) == SubSeq(s, 1, IF Len(s) < n THEN Len(s) ELSE n)

\* the lines of `for (i, sig_info) in signatures.iter().take(5).enumerate()`
SignatureLines(signatures) ==
    LET shown == Take(signatures, 5)
    IN  [j \in 1..Len(shown) |->
            LET i == j - 1
            IN  Stdout(DecStr(i + 1) \o <<". Signature: ", shown[j]>>)]

\* what the Ok arm of get_signatures_for_address prints
RenderSignatures(signatures) ==
    <<Stdout(<<"\nRecent Transactions:">>)>> \o
    (IF signatures = <<>>
     THEN <<Stdout(<<"No recent transactions found.">>)>>
     ELSE SignatureLines(signatures))

\* client.get_signatures_for_address(&pubkey) and its match
GetSignaturesForAddress ==
    /\ pc = "get_signatures_for_address"
    /\ \/ \E signatures \in SigHistories :
            log' = log \o <<Rpc("get_signatures_for_address", TRUE, signatures)>>
                       \o RenderSignatures(signatures)
       \/ \E err \in RpcErrors :
            log' = log \o <<Rpc("get_signatures_for_address", FALSE, <<err>>),
                            Stdout(<<"Failed to get transaction history: ", err>>)>>
    /\ pc' = "loop"
    /\ pubkey' = ""
    /\ UNCHANGED <<choice, feature_solana>>

Next ==
    \/ Main
    \/ ShowMenu
    \/ ReadLine
    \/ Match
    \/ RustBasicsDemo
    \/ SolanaInteractionDemo
    \/ ReadKeypairFile
    \/ GetBalance
    \/ GetLatestBlockhash
    \/ GetSignaturesForAddress

Spec == Init /\ [][Next]_vars


(***************************************************************************)
(* Vocabulary of the properties: what the log of the current iteration     *)
(* shows.                                                                  *)
(***************************************************************************)
Printed(t) == \E i \in DOMAIN log : log[i].k = "stdout" /\ log[i].text = t
ReadReturned(res) == \E i \in DOMAIN log : log[i].k = "stdin" /\ log[i].res = res
KeypairRead(ok) == \E i \in DOMAIN log : log[i].k = "file" /\ log[i].ok = ok
Called(op) == \E i \in DOMAIN log : log[i].k = "rpc" /\ log[i].op = op
Returned(op, ok) ==
    \E i \in DOMAIN log : log[i].k = "rpc" /\ log[i].op = op /\ log[i].ok = ok
AnyRpc == \E i \in DOMAIN log : log[i].k = "rpc"
LastIs(k, t) == log # <<>> /\ log[Len(log)].k = k /\ log[Len(log)].text = t

\* the line read is c with only whitespace around it
ChoiceIs(c) ==
    \E i \in DOMAIN choice :
        /\ choice[i] = c
        /\ \A j \in DOMAIN choice \ {i} : choice[j] \in {" ", "\t", "\n", "\r"}

\* a line (or the empty string of end-of-stream) was read in this iteration and
\* the match on it has been taken
Dispatched == (ReadReturned("line") \/ ReadReturned("eof")) /\ pc # "match"

WalletPcs ==
    {"read_keypair_file", "get_balance", "get_latest_blockhash",
     "get_signatures_for_address"}
BasicsRan == pc = "rust_basics_demo" \/ Printed(<<"\nRUST BASICS DEMO">>)
SolanaRan ==
    \/ pc \in {"solana_interaction_demo"} \cup WalletPcs
    \/ Printed(<<"\nSOLANA INTERACTION DEMO">>)
ExitRan == pc = "exited" \/ Printed(<<"Exiting program. Goodbye!">>)
Rejected == Printed(<<"Invalid choice. Please select 1, 2, or 3.">>)

\* C1: once the line read in this iteration is dispatched, a line that is "1",
\* "2" or "3" up to surrounding whitespace has started exactly its own action
\* (the basics demo, the Solana demo, the exit branch) and none of the others.
C1_DispatchExact ==
    Dispatched =>
        /\ ChoiceIs("1") => BasicsRan /\ ~SolanaRan /\ ~ExitRan /\ ~Rejected
        /\ ChoiceIs("2") => SolanaRan /\ ~BasicsRan /\ ~ExitRan /\ ~Rejected
        /\ ChoiceIs("3") => ExitRan /\ ~BasicsRan /\ ~SolanaRan /\ ~Rejected

C1_Witness ==
    /\ choice = <<" ", "2", "\r", "\n">>
    /\ pc = "read_keypair_file"
    /\ Printed(<<"\nSOLANA INTERACTION DEMO">>)

\* C2: a line that is none of "1", "2", "3" up to surrounding whitespace (the
\* empty string included) gets only the rejection message: the iteration's log
\* is the menu, the prompt, the read and the rejection, control is back at the
\* top of the loop, and the next step prints the menu and the prompt again.
C2_InvalidRejected ==
    /\ [](Dispatched /\ ~ChoiceIs("1") /\ ~ChoiceIs("2") /\ ~ChoiceIs("3") =>
            /\ pc = "loop"
            /\ Len(log) = 7
            /\ \A i \in 1..5 : log[i].k = "stdout"
            /\ log[6].k = "stdin"
            /\ LastIs("stdout", <<"Invalid choice. Please select 1, 2, or 3.">>))
    /\ [][pc = "loop" =>
            /\ pc' = "read_line"
            /\ Len(log') = 5
            /\ log'[1].text = <<"\nChoose a demo:">>
            /\ log'[5].text = <<"Enter your choice (1-3): ">>]_vars

C2_Witness ==
    /\ choice = <<"1", "2", "\n">>
    /\ pc = "loop"
    /\ Rejected

\* C3: a line that is "3" up to whitespace ends the process: the goodbye
\* message is the last entry of the log and no step is possible afterwards.
C3_ExitIsFinal ==
    /\ Dispatched /\ ChoiceIs("3") => pc = "exited"
    /\ pc = "exited" =>
            /\ LastIs("stdout", <<"Exiting program. Goodbye!">>)
            /\ ~ENABLED Next

C3_Witness == pc = "exited" /\ choice = <<"3", "\n">>

\* C4: when read_line meets end-of-stream the process has stopped with the
\* diagnostic of a failed read.
C4_EofTerminates ==
    ReadReturned("eof") =>
        /\ pc = "panicked"
        /\ log[Len(log)].k = "stderr"

\* C5: every remote call of an invocation comes after a successful load of the
\* key file in it; a failed load is the only load, is followed by the two
\* lines of the hint alone, and returns to the top of the loop with no remote
\* call made.
C5_NoCallWithoutKeypair ==
    /\ \A i \in DOMAIN log :
          log[i].k = "rpc" =>
              \E j \in 1..(i - 1) : log[j].k = "file" /\ log[j].ok
    /\ KeypairRead(FALSE) =>
          /\ pc = "loop"
          /\ ~AnyRpc
          /\ Cardinality({i \in DOMAIN log : log[i].k = "file"}) = 1
          /\ log[Len(log) - 2].k = "file"
          /\ log[Len(log) - 1].k = "stdout"
          /\ LastIs("stdout",
                    <<"Make sure you've created a wallet using 'solana-keygen new'">>)

C5_Witness == KeypairRead(FALSE) /\ pc = "loop" /\ feature_solana

Ordinal == <<"1", "2", "3", "4", "5">>

\* C6: after get_signatures_for_address returns a history s, the rest of the
\* log is the heading and then: for an empty s the "no recent transactions"
\* line alone; otherwise min(5, Len(s)) entries, entry k labelled k and
\* showing s[k]. After an error the rest of the log is the error line alone.
C6_SignatureRendering ==
    \A i \in DOMAIN log :
        log[i].k = "rpc" /\ log[i].op = "get_signatures_for_address" =>
            LET rest == SubSeq(log, i + 1, Len(log))
                s    == log[i].val
                n    == IF Len(s) < 5 THEN Len(s) ELSE 5
            IN  /\ \A j \in DOMAIN rest : rest[j].k = "stdout"
                /\ IF ~log[i].ok
                   THEN /\ Len(rest) = 1
                        /\ rest[1].text = <<"Failed to get transaction history: ">> \o s
                   ELSE /\ Len(rest) >= 1
                        /\ rest[1].text = <<"\nRecent Transactions:">>
                        /\ IF Len(s) = 0
                           THEN /\ Len(rest) = 2
                                /\ rest[2].text = <<"No recent transactions found.">>
                           ELSE /\ Len(rest) = 1 + n
                                /\ \A k \in 1..n :
                                      rest[1 + k].text = <<Ordinal[k], ". Signature: ", s[k]>>

C6_Witness ==
    \E i \in DOMAIN log :
        /\ log[i].k = "rpc" /\ log[i].op = "get_signatures_for_address" /\ log[i].ok
        /\ Len(log[i].val) = 6
        /\ Len(log) = i + 6
        /\ log[Len(log)].text = <<"5", ". Signature: ", log[i].val[5]>>

\* C7: the process stops only by the exit branch on a line that is "3" or by
\* the panic of a failed read; a step that logs a failure of the key file or
\* of a remote call leaves the process inside the flow or at the top of the
\* loop, the flow always ends at the top of the loop, and from there the next
\* step prints the menu and the prompt and waits in read_line.
C7_OnlyExitOrReadFailureStops ==
    [][ /\ pc' = "exited" => pc = "match" /\ ChoiceIs("3")
        /\ pc' = "panicked" =>
              /\ pc = "read_line"
              /\ Len(log') = Len(log) + 2
              /\ log'[Len(log) + 1].k = "stdin" /\ log'[Len(log) + 1].res = "err"
        /\ pc \in {"solana_interaction_demo"} \cup WalletPcs =>
              pc' \in WalletPcs \cup {"loop"}
        /\ (\E i \in (Len(log) + 1)..Len(log') :
                log'[i].k \in {"file", "rpc"} /\ ~log'[i].ok) =>
              pc' \in WalletPcs \cup {"loop"}
        /\ pc = "loop" =>
              /\ pc' = "read_line"
              /\ log'[Len(log')].text = <<"Enter your choice (1-3): ">> ]_vars

C7_Witness ==
    /\ pc = "loop"
    /\ Returned("get_balance", FALSE)
    /\ Returned("get_latest_blockhash", TRUE)
    /\ Returned("get_signatures_for_address", FALSE)

\* the decimal text d times 10^9, when d has at most nine fractional digits
DigitOf(c) == CHOOSE n \in 0..9 : DigitChar[n + 1] = c
PointAt(d) ==
    IF \E i \in DOMAIN d : d[i] = "."
    THEN CHOOSE i \in DOMAIN d : d[i] = "."
    ELSE Len(d) + 1
FracLen(d) == Len(d) - (IF PointAt(d) > Len(d) THEN Len(d) ELSE PointAt(d))
Scaled(d) ==
    LET p      == PointAt(d)
        digits == SubSeq(d, 1, p - 1) \o SubSeq(d, p + 1, Len(d)) \o Zeros(9 - FracLen(d))
    IN  Norm([i \in 1..Len(digits) |-> DigitOf(digits[Len(digits) + 1 - i])])
WellFormed(d) ==
    /\ d # <<>>
    /\ \A i \in DOMAIN d : d[i] \in {"."} \cup {DigitChar[n] : n \in 1..10}
    /\ Cardinality({i \in DOMAIN d : d[i] = "."}) <= 1
    /\ PointAt(d) \notin {1, Len(d)}
    /\ FracLen(d) <= 9
ShowsExactly(d, amount) == WellFormed(d) /\ Scaled(d) = amount

\* the text between "Balance: " and " SOL" of a printed balance line
Shown(line) == SubSeq(line, 2, Len(line) - 1)

\* 2^23 * 10^9: below 2^23 SOL two neighbouring f64 are less than 10^-9 apart
ExactUpTo == MulPow2(Billion, 23)

\* C8 as stated: every amount get_balance returns is displayed as exactly
\* amount / 10^9.
C8_BalanceExactAlways ==
    \A i \in DOMAIN log :
        log[i].k = "rpc" /\ log[i].op = "get_balance" /\ log[i].ok =>
            /\ log[i + 1].k = "stdout"
            /\ log[i + 1].text[1] = "Balance: "
            /\ ShowsExactly(Shown(log[i + 1].text), log[i].val)

\* C8 as amended: an amount of at most 8_388_608_000_000_000 (2^23 * 10^9)
\* is displayed as exactly amount / 10^9 in "Balance: <decimal> SOL", and
\* 2_500_000_000 as "2.5".
C8_BalanceExactUpTo ==
    \A i \in DOMAIN log :
        log[i].k = "rpc" /\ log[i].op = "get_balance" /\ log[i].ok =>
            /\ log[i + 1].k = "stdout"
            /\ log[i + 1].text[1] = "Balance: "
            /\ log[i + 1].text[Len(log[i + 1].text)] = " SOL"
            /\ Cmp(log[i].val, ExactUpTo) <= 0 =>
                  ShowsExactly(Shown(log[i + 1].text), log[i].val)
            /\ log[i].val = <<0, 0, 0, 0, 0, 0, 0, 0, 5, 2>> =>
                  Shown(log[i + 1].text) = <<"2", ".", "5">>

C8_Witness ==
    \E i \in DOMAIN log :
        /\ log[i].k = "rpc" /\ log[i].op = "get_balance" /\ log[i].ok
        /\ log[i].val = FromGroups(<<8, 388, 607, 999, 999, 999>>)
        /\ log[i + 1].text =
              <<"Balance: ", "8", "3", "8", "8", "6", "0", "7", ".",
                "9", "9", "9", "9", "9", "9", "9", "9", "9", " SOL">>

RpcLog == SelectSeq(log, LAMBDA e : e.k = "rpc")
WalletOrder == <<"get_balance", "get_latest_blockhash", "get_signatures_for_address">>

\* C9: the remote calls of an invocation are, in order, a prefix of
\* get_balance, get_latest_blockhash, get_signatures_for_address: each is made
\* at most once and none before the one ahead of it has returned.
C9_CallOrder ==
    /\ Len(RpcLog) <= 3
    /\ \A i \in DOMAIN RpcLog : RpcLog[i].op = WalletOrder[i]

C9_Witness ==
    /\ Len(RpcLog) = 3
    /\ ~RpcLog[1].ok
    /\ RpcLog[3].ok

\* C10: a failed get_balance is followed by get_latest_blockhash; a failed
\* get_latest_blockhash ends the invocation with its error line, no hash line
\* and no get_signatures_for_address; and a finished invocation has called
\* get_signatures_for_address exactly when the key file loaded and
\* get_latest_blockhash succeeded.
C10_AsymmetricFailure ==
    /\ Returned("get_balance", FALSE) =>
          pc = "get_latest_blockhash" \/ Called("get_latest_blockhash")
    /\ Returned("get_latest_blockhash", FALSE) =>
          /\ pc = "loop"
          /\ ~Called("get_signatures_for_address")
          /\ log[Len(log) - 1].k = "rpc"
          /\ log[Len(log)].k = "stdout"
          /\ log[Len(log)].text[1] = "Failed to get recent blockhash: "
          /\ \A i \in DOMAIN log :
                log[i].k = "stdout" => log[i].text[1] # "Recent blockhash: "
    /\ pc = "loop" /\ SolanaRan =>
          (Called("get_signatures_for_address") <=>
              KeypairRead(TRUE) /\ Returned("get_latest_blockhash", TRUE))

C10_Witness ==
    /\ pc = "loop"
    /\ Returned("get_balance", FALSE)
    /\ Returned("get_latest_blockhash", TRUE)
    /\ Called("get_signatures_for_address")

====
